---- MODULE Spec2Model ----
(***************************************************************************)
(* Lineage hierarchy engine of Taxonium's lineage side panel.              *)
(*                                                                         *)
(* A lineage name is a JavaScript string, modelled as a sequence of        *)
(* one-character strings (<<"A","Y",".","4">> is "AY.4").  null/undefined  *)
(* is Null.  The lineageMap object of organizeLineageHierarchy is a        *)
(* function from names to node records together with the sequence of its   *)
(* keys in insertion order (the order Object.values walks them; no name    *)
(* handed to organizeLineageHierarchy is an integer-like key or a property *)
(* inherited from Object.prototype).  Node objects are shared by reference *)
(* in the code                                                             *)
(* (lineageMap, children arrays, the root list), so children and roots     *)
(* hold names, the keys of the one record per node.                        *)
(*                                                                         *)
(* Eight specifications: Spec is CategoryList, which rebuilds its          *)
(* hierarchy from every new keyStuff; SpecTools is LineageTools, which     *)
(* memoizes it; SpecNames applies checkLineageRelationship to pairs of     *)
(* names; SpecParser applies the functions on one name to a name;          *)
(* SpecBuild applies buildLineageHierarchy to arrays of tree nodes;        *)
(* SpecKinds applies organizeLineageHierarchy with a nodeTypes argument;   *)
(* SpecClicks is the category selection of both panels and of Taxonium;    *)
(* SpecChart is LineageTimeChart's two effects, with JavaScript Numbers    *)
(* as binary64 values m * 2^e rounded to nearest, ties to even.            *)
(***************************************************************************)
EXTENDS Integers, Sequences, FiniteSets, TLC

\* ------------------------------------------------------------------ bounds
\* Largest count of one observation.
MaxCount == 2
\* Longest keyStuff array.
MaxObs == 2

\* --------------------------------------------------------- string helpers
Null == <<"null">>

\* !s for a value that is a string, null or undefined.
Falsy(s) == s = Null \/ s = <<>>

UpperLetters ==
  {"A","B","C","D","E","F","G","H","I","J","K","L","M",
   "N","O","P","Q","R","S","T","U","V","W","X","Y","Z"}

LowerLetters ==
  {"a","b","c","d","e","f","g","h","i","j","k","l","m",
   "n","o","p","q","r","s","t","u","v","w","x","y","z"}

\* The characters \d matches.
Digits == {"0","1","2","3","4","5","6","7","8","9"}

\* String.prototype.indexOf(ch): 0-based index of the first ch, -1 if none.
IndexOf(s, ch) ==
  IF \E i \in 1..Len(s) : s[i] = ch
  THEN (CHOOSE i \in 1..Len(s) : s[i] = ch /\ \A j \in 1..(i - 1) : s[j] # ch) - 1
  ELSE 0 - 1

\* String.prototype.substring(from, to) and substring(from), 0-based.
Substring(s, from, to) == SubSeq(s, from + 1, to)
SubstringFrom(s, from) == SubSeq(s, from + 1, Len(s))

\* String.prototype.startsWith(p).
StartsWith(s, p) == Len(p) <= Len(s) /\ SubSeq(s, 1, Len(p)) = p

\* String.prototype.split('.'): "" splits to [""].
RECURSIVE Split(_)
Split(s) ==
  LET d == IndexOf(s, ".")
  IN IF d = 0 - 1 THEN <<s>>
     ELSE <<SubSeq(s, 1, d)>> \o Split(SubSeq(s, d + 2, Len(s)))

\* Array.prototype.join('.').
RECURSIVE Join(_)
Join(parts) ==
  IF Len(parts) = 0 THEN <<>>
  ELSE IF Len(parts) = 1 THEN parts[1]
  ELSE parts[1] \o <<".">> \o Join(Tail(parts))

\* /^[A-Z]{2,}($|\.)/.test(s)
MultiLetterRootTest(s) ==
  \E k \in 2..Len(s) :
    /\ \A i \in 1..k : s[i] \in UpperLetters
    /\ (k = Len(s) \/ s[k + 1] = ".")

\* Mutant: below a multi-letter root the parent is always the root.
parseLineageName_RootParent(lineageName) ==
  IF Falsy(lineageName) THEN [parts |-> <<>>, parent |-> Null]
  ELSE IF MultiLetterRootTest(lineageName) /\ IndexOf(lineageName, ".") > 0
  THEN LET dotIndex == IndexOf(lineageName, ".")
           rootPart == Substring(lineageName, 0, dotIndex)
       IN [parts |-> <<rootPart>> \o Split(SubstringFrom(lineageName, dotIndex + 1)),
           parent |-> rootPart]
  ELSE LET parts == Split(lineageName)
       IN [parts |-> parts,
           parent |-> IF Len(parts) > 1
                      THEN Join(SubSeq(parts, 1, Len(parts) - 1))
                      ELSE Null]

\* ------------------------------------------------------- parseLineageName
parseLineageName(lineageName) ==
  IF Falsy(lineageName) THEN [parts |-> <<>>, parent |-> Null]
  ELSE IF MultiLetterRootTest(lineageName)
  THEN LET dotIndex == IndexOf(lineageName, ".")
       IN IF dotIndex > 0
          THEN LET rootPart == Substring(lineageName, 0, dotIndex)
                   numericParts == Split(SubstringFrom(lineageName, dotIndex + 1))
               IN [parts |-> <<rootPart>> \o numericParts,
                   parent |-> IF Len(numericParts) > 1
                              THEN rootPart \o <<".">>
                                   \o Join(SubSeq(numericParts, 1, Len(numericParts) - 1))
                              ELSE rootPart]
          ELSE [parts |-> <<lineageName>>, parent |-> Null]
  ELSE LET parts == Split(lineageName)
       IN [parts |-> parts,
           parent |-> IF Len(parts) > 1
                      THEN Join(SubSeq(parts, 1, Len(parts) - 1))
                      ELSE Null]

\* Mutant: below a multi-letter root the level is the number of segments.
getLineageLevel_CountsRoot(lineageName) ==
  IF Falsy(lineageName) THEN 0
  ELSE IF MultiLetterRootTest(lineageName)
  THEN IF IndexOf(lineageName, ".") = 0 - 1 THEN 0
       ELSE Len(Split(lineageName))
  ELSE Len(parseLineageName(lineageName).parts) - 1

\* --------------------------------------------------------- getLineageLevel
getLineageLevel(lineageName) ==
  IF Falsy(lineageName) THEN 0
  ELSE IF MultiLetterRootTest(lineageName)
  THEN IF IndexOf(lineageName, ".") = 0 - 1 THEN 0
       ELSE Len(Split(lineageName)) - 1
  ELSE Len(parseLineageName(lineageName).parts) - 1

\* ---------------------------------------------------- getAllParentLineages
\* parents[i] is parts[0] + "." + ... + parts[i-1]; the last one (the lineage
\* itself) is popped.
RECURSIVE ParentPrefixes(_, _)
ParentPrefixes(parts, n) ==
  IF n = 0 THEN <<>>
  ELSE Append(ParentPrefixes(parts, n - 1), Join(SubSeq(parts, 1, n)))

getAllParentLineages(lineageName) ==
  IF Falsy(lineageName) THEN <<>>
  ELSE LET parts ==
             IF MultiLetterRootTest(lineageName)
             THEN LET dotIndex == IndexOf(lineageName, ".")
                  IN IF dotIndex > 0
                     THEN <<Substring(lineageName, 0, dotIndex)>>
                          \o Split(SubstringFrom(lineageName, dotIndex + 1))
                     ELSE <<lineageName>>
             ELSE Split(lineageName)
       IN ParentPrefixes(parts, Len(parts) - 1)

\* ---------------------------------------------------------- isPangoLineage
\* /^[A-Za-z](\.\d+)*$/.test(name) from position i on (1-based), after the
\* letter: the rest is empty, or a dot and one or more digits followed by a
\* rest that matches.
RECURSIVE DotDigitGroups(_, _)
DotDigitGroups(name, i) ==
  \/ i = Len(name) + 1
  \/ /\ i < Len(name)
     /\ name[i] = "."
     /\ \E j \in (i + 1)..Len(name) :
          /\ \A k \in (i + 1)..j : name[k] \in Digits
          /\ DotDigitGroups(name, j + 1)

\* Mutant: the root may be several letters.
isPangoLineage_MultiLetter(name) ==
  IF Falsy(name) THEN FALSE
  ELSE \E r \in 1..Len(name) :
         /\ \A i \in 1..r : name[i] \in UpperLetters \cup LowerLetters
         /\ DotDigitGroups(name, r + 1)

isPangoLineage(name) ==
  IF Falsy(name) THEN FALSE
  ELSE /\ name[1] \in UpperLetters \cup LowerLetters
       /\ DotDigitGroups(name, 2)

\* ------------------------------------------------------ extractLineageRoot
\* Mutant: the root is the first letter of the name.
extractLineageRoot_FirstLetter(lineageName) ==
  IF Falsy(lineageName) THEN [rootLineage |-> Null, nameParts |-> <<>>]
  ELSE LET parts == Split(lineageName)
           letter == IF Len(parts[1]) = 0 THEN <<>> ELSE <<parts[1][1]>>
       IN [rootLineage |-> letter, nameParts |-> <<letter>> \o Tail(parts)]

extractLineageRoot(lineageName) ==
  IF Falsy(lineageName) THEN [rootLineage |-> Null, nameParts |-> <<>>]
  ELSE IF StartsWith(lineageName, <<"X">>)
  THEN IF Len(lineageName) > 1 /\ IndexOf(lineageName, ".") > 0
       THEN LET dotIndex == IndexOf(lineageName, ".")
                rootLineage == Substring(lineageName, 0, dotIndex)
            IN [rootLineage |-> rootLineage,
                nameParts |-> <<rootLineage>>
                              \o Split(SubstringFrom(lineageName, dotIndex + 1))]
       ELSE [rootLineage |-> lineageName, nameParts |-> <<lineageName>>]
  ELSE IF MultiLetterRootTest(lineageName)
  THEN LET dotIndex == IndexOf(lineageName, ".")
       IN IF dotIndex > 0
          THEN LET rootLineage == Substring(lineageName, 0, dotIndex)
               IN [rootLineage |-> rootLineage,
                   nameParts |-> <<rootLineage>>
                                 \o Split(SubstringFrom(lineageName, dotIndex + 1))]
          ELSE [rootLineage |-> lineageName, nameParts |-> <<lineageName>>]
  ELSE LET parts == Split(lineageName)
       IN [rootLineage |-> parts[1], nameParts |-> parts]

\* Mutant: any descendant counts as a direct child.
isDirectChild_AnyDescendant(childLineage, parentLineage) ==
  IF Falsy(childLineage) \/ Falsy(parentLineage) THEN FALSE
  ELSE LET childParts == parseLineageName(childLineage).parts
           parentParts == parseLineageName(parentLineage).parts
       IN /\ Len(childParts) > Len(parentParts)
          /\ \A i \in 1..Len(parentParts) : parentParts[i] = childParts[i]

\* ----------------------------------------------------------- isDirectChild
isDirectChild(childLineage, parentLineage) ==
  IF Falsy(childLineage) \/ Falsy(parentLineage) THEN FALSE
  ELSE IF MultiLetterRootTest(childLineage)
  THEN LET child == extractLineageRoot(childLineage)
           parent == extractLineageRoot(parentLineage)
       IN IF child.rootLineage # parent.rootLineage THEN FALSE
          ELSE /\ Len(child.nameParts) = Len(parent.nameParts) + 1
               /\ Join(SubSeq(child.nameParts, 1, Len(parent.nameParts)))
                    = Join(parent.nameParts)
  ELSE LET childParts == parseLineageName(childLineage).parts
           parentParts == parseLineageName(parentLineage).parts
       IN IF Len(childParts) # Len(parentParts) + 1 THEN FALSE
          ELSE \A i \in 1..Len(parentParts) : parentParts[i] = childParts[i]

\* ------------------------------------------------------------------ colors
\* A color is kept as the term that produced it: the claims compare colors
\* for equality only.  toRGB(key) is the color getKeyStuff gives an entry;
\* generatePangoLineageColor(name) with no prevalence data is a pure function
\* of the name, and the fixed gray [180,180,180] for an empty or absent name.
toRGB(key) == [by |-> "toRGB", of |-> key]

\* The properties the object literal baseColors inherits from
\* Object.prototype: baseColors[key] is a function or an object for them,
\* neither of which can be spread into an array.
ObjectPrototypeKeys ==
  { <<"c","o","n","s","t","r","u","c","t","o","r">>,
    <<"t","o","S","t","r","i","n","g">>,
    <<"v","a","l","u","e","O","f">>,
    <<"h","a","s","O","w","n","P","r","o","p","e","r","t","y">>,
    <<"i","s","P","r","o","t","o","t","y","p","e","O","f">>,
    <<"p","r","o","p","e","r","t","y","I","s","E","n","u","m","e","r","a","b","l","e">>,
    <<"t","o","L","o","c","a","l","e","S","t","r","i","n","g">>,
    <<"_","_","p","r","o","t","o","_","_">>,
    <<"_","_","d","e","f","i","n","e","G","e","t","t","e","r","_","_">>,
    <<"_","_","d","e","f","i","n","e","S","e","t","t","e","r","_","_">>,
    <<"_","_","l","o","o","k","u","p","G","e","t","t","e","r","_","_">>,
    <<"_","_","l","o","o","k","u","p","S","e","t","t","e","r","_","_">> }

\* /^[A-Za-z]+$/.test(s)
AllLettersTest(s) ==
  Len(s) > 0 /\ \A i \in 1..Len(s) : s[i] \in UpperLetters \cup LowerLetters

\* Mutant: a root the table does not hold gets the gray as well.
generatePangoLineageColor_GrayForUnknown(lineageName) ==
  IF Falsy(lineageName) THEN [by |-> "gray180", of |-> <<>>]
  ELSE IF IndexOf(lineageName, ".") = 0 - 1 /\ ~AllLettersTest(lineageName)
  THEN [by |-> "gray180", of |-> <<>>]
  ELSE IF extractLineageRoot(lineageName).rootLineage \in ObjectPrototypeKeys
  THEN [by |-> "TypeError", of |-> lineageName]
  ELSE [by |-> "generatePangoLineageColor", of |-> lineageName]

\* The outcome of a call without lineageData: the gray of the early return,
\* a TypeError thrown by [...baseColors[rootLineage]], or the color the
\* arithmetic on the name yields.
generatePangoLineageColor(lineageName) ==
  IF Falsy(lineageName) THEN [by |-> "gray180", of |-> <<>>]
  ELSE IF IndexOf(lineageName, ".") = 0 - 1 /\ ~AllLettersTest(lineageName)
  THEN [by |-> "generatePangoLineageColor", of |-> lineageName]
  ELSE IF extractLineageRoot(lineageName).rootLineage \in ObjectPrototypeKeys
  THEN [by |-> "TypeError", of |-> lineageName]
  ELSE [by |-> "generatePangoLineageColor", of |-> lineageName]

\* ------------------------------------------------ organizeLineageHierarchy
\* nodeTypes: [given |-> FALSE] for the default null, else
\* [given |-> TRUE, types |-> a function from names to "leaf" / "internal"].
NoNodeTypes == [given |-> FALSE, types |-> <<>>]

EmptyForest == [nodes |-> <<>>, keys |-> <<>>, roots |-> <<>>]

\* Mutant: a count is a sample count only for a name tagged "leaf".
RealNode_UntaggedInternal(lineage, nodeTypes) ==
  LET isLeafCount == /\ nodeTypes.given
                     /\ lineage.value \in DOMAIN nodeTypes.types
                     /\ nodeTypes.types[lineage.value] = "leaf"
  IN [name |-> lineage.value,
      count |-> lineage.count,
      originalCount |-> lineage.count,
      sampleCount |-> IF isLeafCount THEN lineage.count ELSE 0,
      internalCount |-> IF isLeafCount THEN 0 ELSE lineage.count,
      color |-> lineage.color,
      children |-> <<>>,
      isExpanded |-> FALSE,
      level |-> getLineageLevel(lineage.value),
      parent |-> Null,
      totalTaxa |-> <<>>]

\* Mutant: a count tagged "internal" is a sample count as well.
RealNode_InternalAlsoSample(lineage, nodeTypes) ==
  LET isLeafCount == \/ ~nodeTypes.given
                     \/ lineage.value \notin DOMAIN nodeTypes.types
                     \/ nodeTypes.types[lineage.value] = "leaf"
  IN [name |-> lineage.value,
      count |-> lineage.count,
      originalCount |-> lineage.count,
      sampleCount |-> lineage.count,
      internalCount |-> IF isLeafCount THEN 0 ELSE lineage.count,
      color |-> lineage.color,
      children |-> <<>>,
      isExpanded |-> FALSE,
      level |-> getLineageLevel(lineage.value),
      parent |-> Null,
      totalTaxa |-> <<>>]

\* totalTaxa and parent are absent (undefined) on a fresh node: totalTaxa is
\* <<>> until assigned <<n>>, parent is Null until linked.
RealNode(lineage, nodeTypes) ==
  LET isLeafCount == \/ ~nodeTypes.given
                     \/ lineage.value \notin DOMAIN nodeTypes.types
                     \/ nodeTypes.types[lineage.value] = "leaf"
  IN [name |-> lineage.value,
      count |-> lineage.count,
      originalCount |-> lineage.count,
      sampleCount |-> IF isLeafCount THEN lineage.count ELSE 0,
      internalCount |-> IF isLeafCount THEN 0 ELSE lineage.count,
      color |-> lineage.color,
      children |-> <<>>,
      isExpanded |-> FALSE,
      level |-> getLineageLevel(lineage.value),
      parent |-> Null,
      totalTaxa |-> <<>>]

SyntheticNode(parentName) ==
  [name |-> parentName,
   count |-> 0,
   originalCount |-> 0,
   sampleCount |-> 0,
   internalCount |-> 0,
   color |-> generatePangoLineageColor(parentName),
   children |-> <<>>,
   isExpanded |-> FALSE,
   level |-> getLineageLevel(parentName),
   parent |-> Null,
   totalTaxa |-> <<>>]

\* lineageMap[k] = node, for a key the map does not hold yet.
PutNode(st, k, node) ==
  [map |-> st.map @@ (k :> node), keys |-> Append(st.keys, k)]

\* parentLineages.forEach: create each parent the map does not hold.
RECURSIVE EnsureParents(_, _, _)
EnsureParents(st, parentLineages, i) ==
  IF i > Len(parentLineages) THEN st
  ELSE LET parentName == parentLineages[i]
       IN EnsureParents(IF parentName \in DOMAIN st.map THEN st
                        ELSE PutNode(st, parentName, SyntheticNode(parentName)),
                        parentLineages, i + 1)

\* Mutant: the first pass does not skip a lineage without a value.
FirstPassStep_KeepsEmpty(st, lineage, nodeTypes) ==
  LET st1 == IF lineage.value \in DOMAIN st.map THEN st
             ELSE PutNode(st, lineage.value, RealNode(lineage, nodeTypes))
  IN EnsureParents(st1, getAllParentLineages(lineage.value), 1)

\* The body of the first pass for one lineage.
FirstPassStep(st, lineage, nodeTypes) ==
  IF Falsy(lineage.value) THEN st
  ELSE LET st1 == IF lineage.value \in DOMAIN st.map THEN st
                  ELSE PutNode(st, lineage.value, RealNode(lineage, nodeTypes))
       IN EnsureParents(st1, getAllParentLineages(lineage.value), 1)

RECURSIVE FirstPass(_, _, _, _)
FirstPass(st, lineages, nodeTypes, i) ==
  IF i > Len(lineages) THEN st
  ELSE FirstPass(FirstPassStep(st, lineages[i], nodeTypes), lineages, nodeTypes, i + 1)

\* Mutant: a node linked to its parent is pushed to the root list as well.
LinkNode_AlsoRoot(st, name) ==
  LET parent == parseLineageName(name).parent
  IN IF ~Falsy(parent) /\ parent \in DOMAIN st.map
     THEN [map |-> [st.map EXCEPT ![parent].children = Append(@, name),
                                  ![name].parent = parent],
           roots |-> Append(st.roots, name)]
     ELSE [map |-> st.map, roots |-> Append(st.roots, name)]

\* The body of the second pass for one node: st = [map, roots].
LinkNode(st, name) ==
  LET parent == parseLineageName(name).parent
  IN IF Falsy(parent)
     THEN [map |-> st.map, roots |-> Append(st.roots, name)]
     ELSE IF parent \in DOMAIN st.map
     THEN [map |-> [st.map EXCEPT ![parent].children = Append(@, name),
                                  ![name].parent = parent],
           roots |-> st.roots]
     ELSE [map |-> st.map, roots |-> Append(st.roots, name)]

RECURSIVE SecondPass(_, _, _)
SecondPass(st, keys, i) ==
  IF i > Len(keys) THEN st
  ELSE SecondPass(LinkNode(st, keys[i]), keys, i + 1)

\* Third pass.  The result carries the map with the nodes of the subtree
\* updated in place, and the three returned totals.
RECURSIVE accumulateChildCounts(_, _)
RECURSIVE AccumulateOver(_, _, _)
\* for (const child of node.children): acc = [map, totalChildrenCount,
\* totalSampleCount, totalInternalCount].
AccumulateOver(acc, children, i) ==
  IF i > Len(children) THEN acc
  ELSE LET childCounts == accumulateChildCounts(acc.map, children[i])
       IN AccumulateOver([map |-> childCounts.map,
                          totalChildrenCount |-> acc.totalChildrenCount + childCounts.totalCount,
                          totalSampleCount |-> acc.totalSampleCount + childCounts.sampleCount,
                          totalInternalCount |-> acc.totalInternalCount + childCounts.internalCount],
                         children, i + 1)

\* Mutant: the node's own count is left out of its total.
TotalIncludingChildren_ChildrenOnly(node, totalChildrenCount) ==
  totalChildrenCount

\* node.count = node.originalCount + totalChildrenCount
TotalIncludingChildren(node, totalChildrenCount) ==
  node.originalCount + totalChildrenCount

accumulateChildCounts(map, name) ==
  LET node == map[name]
  IN IF Len(node.children) = 0
     THEN [map |-> map,
           totalCount |-> node.originalCount,
           sampleCount |-> node.sampleCount,
           internalCount |-> node.internalCount]
     ELSE LET acc == AccumulateOver([map |-> map,
                                     totalChildrenCount |-> 0,
                                     totalSampleCount |-> node.sampleCount,
                                     totalInternalCount |-> node.internalCount],
                                    node.children, 1)
              count == TotalIncludingChildren(node, acc.totalChildrenCount)
          IN [map |-> [acc.map EXCEPT ![name].count = count,
                                      ![name].sampleCount = acc.totalSampleCount,
                                      ![name].internalCount = acc.totalInternalCount,
                                      ![name].totalTaxa =
                                         <<acc.totalSampleCount + acc.totalInternalCount>>],
              totalCount |-> count,
              sampleCount |-> acc.totalSampleCount,
              internalCount |-> acc.totalInternalCount]

\* rootLineages.forEach(accumulateChildCounts)
RECURSIVE AccumulateRoots(_, _, _)
AccumulateRoots(map, roots, i) ==
  IF i > Len(roots) THEN map
  ELSE AccumulateRoots(accumulateChildCounts(map, roots[i]).map, roots, i + 1)

\* Mutant: the comparator sorts ascending.
sortByCount_Ascending(map, a, b) == map[a].count - map[b].count

\* sortByCount = (a, b) => b.count - a.count: a goes before b when the
\* result is negative.
sortByCount(map, a, b) == map[b].count - map[a].count

\* Array.prototype.sort(sortByCount), a stable sort: each element is put
\* behind every element already placed that does not have to follow it.
RECURSIVE InsertByCount(_, _, _)
InsertByCount(map, sorted, x) ==
  IF Len(sorted) = 0 THEN <<x>>
  ELSE IF sortByCount(map, x, sorted[Len(sorted)]) < 0
  THEN Append(InsertByCount(map, SubSeq(sorted, 1, Len(sorted) - 1), x),
              sorted[Len(sorted)])
  ELSE Append(sorted, x)

RECURSIVE SortOver(_, _, _, _)
SortOver(map, names, i, sorted) ==
  IF i > Len(names) THEN sorted
  ELSE SortOver(map, names, i + 1, InsertByCount(map, sorted, names[i]))

ArraySort(map, names) == SortOver(map, names, 1, <<>>)

RECURSIVE sortChildren(_, _)
RECURSIVE SortChildrenOver(_, _, _)
SortChildrenOver(map, names, i) ==
  IF i > Len(names) THEN map
  ELSE SortChildrenOver(sortChildren(map, names[i]), names, i + 1)

sortChildren(map, name) ==
  IF Len(map[name].children) > 0
  THEN LET sorted == ArraySort(map, map[name].children)
       IN SortChildrenOver([map EXCEPT ![name].children = sorted], sorted, 1)
  ELSE map

organizeLineageHierarchy(lineages, nodeTypes) ==
  IF Len(lineages) = 0 THEN EmptyForest
  ELSE LET first == FirstPass([map |-> <<>>, keys |-> <<>>], lineages, nodeTypes, 1)
           second == SecondPass([map |-> first.map, roots |-> <<>>], first.keys, 1)
           third == AccumulateRoots(second.map, second.roots, 1)
           rootLineages == ArraySort(third, second.roots)
       IN [nodes |-> SortChildrenOver(third, rootLineages, 1),
           keys |-> first.keys,
           roots |-> rootLineages]

\* --------------------------------------------------- buildLineageHierarchy
\* String.prototype.includes('.').
IncludesDot(s) == IndexOf(s, ".") # 0 - 1

\* parts = name.split('.'); parts.pop(); parts.join('.')
PopJoin(name) ==
  LET parts == Split(name)
  IN Join(SubSeq(parts, 1, Len(parts) - 1))

\* First pass: the Map lineageMap of the lineages of the nodes and their
\* numbers of nodes, st = [counts, keys] with the keys in insertion order.
\* node.lineage stands for the lineage the field lookups of the loop find.
RECURSIVE CountLineages(_, _, _)
CountLineages(st, nodes, i) ==
  IF i > Len(nodes) THEN st
  ELSE LET lineage == nodes[i].lineage
       IN CountLineages(
            IF Falsy(lineage) THEN st
            ELSE IF lineage \in DOMAIN st.counts
            THEN [st EXCEPT !.counts[lineage] = @ + 1]
            ELSE [counts |-> st.counts @@ (lineage :> 1),
                  keys |-> Append(st.keys, lineage)],
            nodes, i + 1)

\* The Map lineageNodes: one node per counted lineage.
CountedNode(lineageName, count) ==
  [name |-> lineageName, originalCount |-> count, count |-> count, children |-> <<>>]

\* The while loop that adds a node's own count to the ancestors above its
\* parent, and the statement after it for the top-level name.
RECURSIVE UpdateAncestors(_, _, _)
UpdateAncestors(map, currentParentName, originalCount) ==
  IF IncludesDot(currentParentName)
  THEN LET grandparentName == PopJoin(currentParentName)
       IN IF grandparentName \in DOMAIN map
          THEN UpdateAncestors([map EXCEPT ![grandparentName].count = @ + originalCount],
                               grandparentName, originalCount)
          ELSE LET topLevelName == Split(currentParentName)[1]
               IN IF topLevelName \in DOMAIN map
                  THEN [map EXCEPT ![topLevelName].count = @ + originalCount]
                  ELSE map
  ELSE map

\* The body of the loop over lineageNodes.keys(): st = [map, roots].
PlaceNode(st, lineageName) ==
  LET asRoot == [map |-> st.map, roots |-> Append(st.roots, lineageName)]
      originalCount == st.map[lineageName].originalCount
  IN IF IncludesDot(lineageName)
     THEN LET parentName == PopJoin(lineageName)
          IN IF parentName \in DOMAIN st.map
             THEN [map |-> UpdateAncestors(
                             [st.map EXCEPT ![parentName].children = Append(@, lineageName),
                                            ![parentName].count = @ + originalCount],
                             parentName, originalCount),
                   roots |-> st.roots]
             ELSE asRoot
     ELSE IF StartsWith(lineageName, <<"X">>) /\ Len(lineageName) > 1
     THEN IF IncludesDot(lineageName)
          THEN LET baseName == Split(lineageName)[1]
               IN IF baseName \in DOMAIN st.map
                  THEN [map |-> [st.map EXCEPT ![baseName].children = Append(@, lineageName),
                                               ![baseName].count = @ + originalCount],
                        roots |-> st.roots]
                  ELSE asRoot
          ELSE asRoot
     ELSE asRoot

RECURSIVE PlaceNodes(_, _, _)
PlaceNodes(st, keys, i) ==
  IF i > Len(keys) THEN st
  ELSE PlaceNodes(PlaceNode(st, keys[i]), keys, i + 1)

\* The returned rootNodes, as [nodes, keys, roots] like the forest of
\* organizeLineageHierarchy.
buildLineageHierarchy(nodes) ==
  IF Len(nodes) = 0 THEN EmptyForest
  ELSE LET lineageMap == CountLineages([counts |-> <<>>, keys |-> <<>>], nodes, 1)
           lineageNodes == [k \in DOMAIN lineageMap.counts |->
                              CountedNode(k, lineageMap.counts[k])]
           placed == PlaceNodes([map |-> lineageNodes, roots |-> <<>>],
                                lineageMap.keys, 1)
           rootNodes == ArraySort(placed.map, placed.roots)
       IN [nodes |-> SortChildrenOver(placed.map, rootNodes, 1),
           keys |-> lineageMap.keys,
           roots |-> rootNodes]

\* Mutant: the prefix tests leave out the dot.
checkLineageRelationship_NoDot(a, b) ==
  IF Falsy(a) \/ Falsy(b) THEN "null"
  ELSE IF a = b THEN "self"
  ELSE IF StartsWith(a, b) THEN "child"
  ELSE IF StartsWith(b, a) THEN "parent"
  ELSE "null"

\* Mutant: the test for a sub-lineage leaves out the dot.
checkLineageRelationship_ChildNoDot(a, b) ==
  IF Falsy(a) \/ Falsy(b) THEN "null"
  ELSE IF a = b THEN "self"
  ELSE IF StartsWith(a, b) THEN "child"
  ELSE IF StartsWith(b, a \o <<".">>) THEN "parent"
  ELSE "null"

\* ------------------------------------------------ checkLineageRelationship
\* Returns "self", "parent", "child", or "null" for null.
checkLineageRelationship(lineageName, referenceLineage) ==
  IF Falsy(lineageName) \/ Falsy(referenceLineage) THEN "null"
  ELSE IF lineageName = referenceLineage THEN "self"
  ELSE IF StartsWith(lineageName, referenceLineage \o <<".">>) THEN "child"
  ELSE IF StartsWith(referenceLineage, lineageName \o <<".">>) THEN "parent"
  ELSE "null"

\* Mutant: the test for a sub-lineage leaves out the dot.
isNodeInSelectedLineage_NoDot(nodeLineage, selectedLineage) ==
  IF Falsy(selectedLineage) THEN TRUE
  ELSE IF Falsy(nodeLineage) THEN FALSE
  ELSE StartsWith(nodeLineage, selectedLineage)

\* ------------------------------------------------- isNodeInSelectedLineage
\* nodeLineage is getNodeColorField(node, dataSource) of a node that exists.
isNodeInSelectedLineage(nodeLineage, selectedLineage) ==
  IF Falsy(selectedLineage) THEN TRUE
  ELSE IF Falsy(nodeLineage) THEN FALSE
  ELSE IF nodeLineage = selectedLineage THEN TRUE
  ELSE StartsWith(nodeLineage, selectedLineage \o <<".">>)

\* ------------------------------------------------------------- getKeyStuff
\* One entry of the array getKeyStuff returns: a value, the number of nodes
\* that carry it (at least 1), and its color toRGB(value).
KeyStuffEntry(value, count) == [value |-> value, count |-> count, color |-> toRGB(value)]

\* ------------------------------------------------------------------ inputs
\* Lineage values of keyStuff entries: a single-letter root with three children
\* and a grandchild, a multi-letter root and its child, a name with an empty
\* first segment, and the empty value.
LineageValues ==
  { <<>>,
    <<"B">>, <<"B", ".", "1">>, <<"B", ".", "2">>, <<"B", ".", "3">>,
    <<"B", ".", "1", ".", "1">>,
    <<"A", "Y">>, <<"A", "Y", ".", "4">>,
    <<".", "1">> }

Entries == { KeyStuffEntry(v, c) : v \in LineageValues, c \in 1..MaxCount }

\* Names handed to the functions on names: every string over NameChars of at
\* most MaxNameLen characters, and the lineage values above with one more
\* level below them.
NameChars == {"B", "A", ".", "1"}

MaxNameLen == 3

RECURSIVE StringsOfLen(_)
StringsOfLen(n) ==
  IF n = 0 THEN { <<>> }
  ELSE { Append(s, ch) : s \in StringsOfLen(n - 1), ch \in NameChars }

\* Recombinant names, a lowercase root, sub-segments of several digits or of
\* none, and names whose root is a property of Object.prototype.
OtherNames ==
  { <<"X">>, <<"X", "B", "B">>, <<"X", ".", "1">>, <<"X", "A", ".", "1">>,
    <<"X", "B", "B", ".", "1", ".", "5">>,
    <<"b">>, <<"b", ".", "1">>, <<"B", ".", "1", "2">>, <<"B", ".", "1", ".">>,
    <<"c", "o", "n", "s", "t", "r", "u", "c", "t", "o", "r">>, <<"c", "o", "n", "s", "t", "r", "u", "c", "t", "o", "r", ".", "1">> }

Names ==
  UNION { StringsOfLen(n) : n \in 0..MaxNameLen }
  \cup LineageValues
  \cup { v \o <<".", "2">> : v \in LineageValues }
  \cup OtherNames

\* The tree nodes handed to buildLineageHierarchy: lineages down to the
\* third level below B, a recombinant root, and a node without a lineage.
BuildLineages ==
  { <<>>, <<"B">>, <<"B", ".", "1">>, <<"B", ".", "1", ".", "1">>,
    <<"B", ".", "1", ".", "1", ".", "1">>, <<"X", "B", "B">> }

BuildNodes == { [time |-> 0, lineage |-> l] : l \in BuildLineages }

\* Most tree nodes in data.nodes.
MaxNodes == 3

RECURSIVE SeqsOfLen(_, _)
SeqsOfLen(S, n) ==
  IF n = 0 THEN { <<>> }
  ELSE { Append(q, x) : q \in SeqsOfLen(S, n - 1), x \in S }

SeqsUpTo(S, n) == UNION { SeqsOfLen(S, k) : k \in 0..n }

\* The keyStuff behind the hierarchy handed to the chart: B with a child, BA
\* and ten more roots, so that there are more roots than the chart shows.
ChartKeyStuff ==
  << KeyStuffEntry(<<"B">>, 2), KeyStuffEntry(<<"B", "A">>, 2),
     KeyStuffEntry(<<"B", ".", "1">>, 1),
     KeyStuffEntry(<<"C">>, 1), KeyStuffEntry(<<"D">>, 1), KeyStuffEntry(<<"E">>, 1),
     KeyStuffEntry(<<"F">>, 1), KeyStuffEntry(<<"G">>, 1), KeyStuffEntry(<<"H">>, 1),
     KeyStuffEntry(<<"I">>, 1), KeyStuffEntry(<<"J">>, 1), KeyStuffEntry(<<"K">>, 1),
     KeyStuffEntry(<<"L">>, 1) >>

\* The tree nodes handed to the chart: at the earliest time nodes of B.1, of
\* BA, of a lineage that is not in the hierarchy and without a lineage, and a
\* later node of B.
ChartNodeKinds ==
  << [time |-> 0, lineage |-> <<"B", ".", "1">>],
     [time |-> 0, lineage |-> <<"B", "A">>],
     [time |-> 0, lineage |-> <<"Z">>],
     [time |-> 0, lineage |-> <<>>],
     [time |-> 10, lineage |-> <<"B">>] >>

\* Most tree nodes the chart is given.
MaxChartNodes == 7

\* The non-decreasing sequences of n numbers of 1..k.
RECURSIVE SortedIndexSeqs(_, _)
SortedIndexSeqs(n, k) ==
  IF n = 0 THEN { <<>> }
  ELSE { Append(q, x) : q \in SortedIndexSeqs(n - 1, k), x \in 1..k } \cap
       { q \in Seq(1..k) : \A i \in 1..(Len(q) - 1) : q[i] <= q[i + 1] }

\* One array of nodes for every collection of at most MaxChartNodes nodes
\* (the order of data.nodes plays no part in a bucket).
ChartNodeArrays ==
  { [i \in 1..Len(q) |-> ChartNodeKinds[q[i]]] :
      q \in UNION { SortedIndexSeqs(n, Len(ChartNodeKinds)) : n \in 0..MaxChartNodes } }

\* The values of the selectedCategory prop: none, a lineage of the
\* hierarchy, a lineage that is not in it.
ChartCategories == { Null, <<"B">>, <<"Z">> }

\* ------------------------------------------------------------------- state
VARIABLES
  keyStuff,          \* the keyStuff prop of LineageTools and CategoryList
  hierarchyData,     \* LineageTools: the memoized hierarchy
  memoLength,        \* LineageTools: the useMemo dependency keyStuff?.length of the last computation
  listHierarchy,     \* CategoryList: the hierarchyData state
  lineageName,       \* first argument of a function on names
  referenceLineage,  \* second argument of a function on names
  relationship,      \* result of checkLineageRelationship, "unset" before the call
  inSelection,       \* <<isNodeInSelectedLineage(node, referenceLineage)>>, <<>> before the call
  directChild,       \* <<isDirectChild(lineageName, referenceLineage)>>, <<>> before the call
  parseResult,       \* <<parseLineageName(lineageName)>>, <<>> before the call
  rootResult,        \* <<extractLineageRoot(lineageName)>>, <<>> before the call
  levelResult,       \* <<getLineageLevel(lineageName)>>, <<>> before the call
  parentsResult,     \* <<getAllParentLineages(lineageName)>>, <<>> before the call
  pangoResult,       \* <<isPangoLineage(lineageName)>>, <<>> before the call
  colorResult,       \* <<generatePangoLineageColor(lineageName)>>, <<>> before the call
  dataNodes,         \* data.nodes: one record [time, lineage] per tree node
  builtHierarchy,    \* <<buildLineageHierarchy(data.nodes, ...)>>, <<>> before the call
  selectedLineage,   \* Taxonium: the selectedLineage state
  listSelected,      \* CategoryList: the selectedCategory state
  lastEvent,         \* the latest click or reset in a category list
  currentDepth,      \* LineageTimeChart: the currentDepth state
  chartLineages,     \* LineageTimeChart: the lineages state
  chartData          \* LineageTimeChart: the buckets of the latest chart data effect

vars == <<keyStuff, hierarchyData, memoLength, listHierarchy,
          lineageName, referenceLineage, relationship, inSelection, directChild,
          parseResult, rootResult, levelResult, parentsResult, pangoResult,
          colorResult,
          dataNodes, builtHierarchy, selectedLineage, listSelected, lastEvent,
          currentDepth, chartLineages, chartData>>

componentVars == <<keyStuff, hierarchyData, memoLength, listHierarchy>>
nameVars == <<lineageName, referenceLineage, relationship, inSelection, directChild>>
parserVars == <<parseResult, rootResult, levelResult, parentsResult, pangoResult,
                colorResult>>

panelVars == <<dataNodes, builtHierarchy, selectedLineage, listSelected, lastEvent,
               currentDepth, chartLineages, chartData>>

\* lastEvent records the last click: its kind, the most recently clicked
\* category, the selection the handler saw and the value it reported.
NoEvent ==
  [kind |-> "none", category |-> Null, selectedBefore |-> Null, reported |-> Null]

\* The side panel as it mounts: no tree node loaded, nothing selected, the
\* chart at depth 0 with no lineage and no bucket.
PanelInitial ==
  /\ dataNodes = <<>>
  /\ builtHierarchy = <<>>
  /\ selectedLineage = Null
  /\ listSelected = Null
  /\ lastEvent = NoEvent
  /\ currentDepth = 0
  /\ chartLineages = <<>>
  /\ chartData = <<>>

\* No function on one name has been called yet.
NoneCalled ==
  /\ parseResult = <<>>
  /\ rootResult = <<>>
  /\ levelResult = <<>>
  /\ parentsResult = <<>>
  /\ pangoResult = <<>>
  /\ colorResult = <<>>

\* ------------------------------------------------------------ CategoryList
\* The effect of CategoryList with the dependency list [keyStuff,
\* isPangoLineageField]: it runs after every render with a new keyStuff.
CategoryListEffect(newKeyStuff) ==
  listHierarchy' = IF Len(newKeyStuff) > 0
                   THEN organizeLineageHierarchy(newKeyStuff, NoNodeTypes)
                   ELSE EmptyForest

\* CategoryList renders with a new keyStuff array.
RenderCategoryList(newKeyStuff) ==
  /\ keyStuff' = newKeyStuff
  /\ CategoryListEffect(newKeyStuff)
  /\ UNCHANGED <<hierarchyData, memoLength>>
  /\ UNCHANGED nameVars
  /\ UNCHANGED parserVars
  /\ UNCHANGED panelVars

RemoveAt(seq, i) == SubSeq(seq, 1, i - 1) \o SubSeq(seq, i + 1, Len(seq))

\* The data gains a value: keyStuff is recomputed with one more entry.
AddEntry ==
  /\ Len(keyStuff) < MaxObs
  /\ \E e \in Entries : RenderCategoryList(Append(keyStuff, e))

\* The data loses a value: keyStuff is recomputed with one entry fewer.
RemoveEntry ==
  \E i \in 1..Len(keyStuff) : RenderCategoryList(RemoveAt(keyStuff, i))

Init ==
  /\ keyStuff = <<>>
  /\ hierarchyData = EmptyForest
  /\ memoLength = 0
  /\ listHierarchy = EmptyForest
  /\ lineageName = <<>>
  /\ referenceLineage = <<>>
  /\ relationship = "unset"
  /\ inSelection = <<>>
  /\ directChild = <<>>
  /\ NoneCalled
  /\ PanelInitial

Next == AddEntry \/ RemoveEntry

Spec == Init /\ [][Next]_vars

\* ------------------------------------------------------------ LineageTools
\* The useMemo of LineageTools with the dependency list [keyStuff?.length]:
\* the callback runs when the length differs from the one of the last run.
LineageToolsMemo(newKeyStuff) ==
  IF Len(newKeyStuff) # memoLength
  THEN /\ hierarchyData' = IF Len(newKeyStuff) = 0 THEN EmptyForest
                           ELSE organizeLineageHierarchy(newKeyStuff, NoNodeTypes)
       /\ memoLength' = Len(newKeyStuff)
  ELSE UNCHANGED <<hierarchyData, memoLength>>

\* LineageTools renders with a new keyStuff array (arePropsEqual compares the
\* references, so every new array renders).
RenderLineageTools(newKeyStuff) ==
  /\ keyStuff' = newKeyStuff
  /\ LineageToolsMemo(newKeyStuff)
  /\ UNCHANGED listHierarchy
  /\ UNCHANGED nameVars
  /\ UNCHANGED parserVars
  /\ UNCHANGED panelVars

ToolsAddEntry ==
  /\ Len(keyStuff) < MaxObs
  /\ \E e \in Entries : RenderLineageTools(Append(keyStuff, e))

ToolsRemoveEntry ==
  \E i \in 1..Len(keyStuff) : RenderLineageTools(RemoveAt(keyStuff, i))

\* The data changes with the values it had: one entry has another count.
ToolsChangeCount ==
  \E i \in 1..Len(keyStuff) : \E c \in (1..MaxCount) \ {keyStuff[i].count} :
    RenderLineageTools([keyStuff EXCEPT ![i].count = c])

NextTools == ToolsAddEntry \/ ToolsRemoveEntry \/ ToolsChangeCount

SpecTools == Init /\ [][NextTools]_vars

\* ------------------------------------------------------ functions on names
InitNames ==
  /\ keyStuff = <<>>
  /\ hierarchyData = EmptyForest
  /\ memoLength = 0
  /\ listHierarchy = EmptyForest
  /\ lineageName \in Names
  /\ referenceLineage \in Names \cup {Null}
  /\ relationship = "unset"
  /\ inSelection = <<>>
  /\ directChild = <<>>
  /\ NoneCalled
  /\ PanelInitial

\* A node named lineageName is rendered while referenceLineage is selected.
CheckRelationship ==
  /\ relationship = "unset"
  /\ relationship' = checkLineageRelationship(lineageName, referenceLineage)
  /\ UNCHANGED <<lineageName, referenceLineage, inSelection, directChild>>
  /\ UNCHANGED componentVars
  /\ UNCHANGED parserVars
  /\ UNCHANGED panelVars

\* A layer decides whether a node whose color field is lineageName belongs
\* to the selected lineage referenceLineage.
CheckInSelection ==
  /\ inSelection = <<>>
  /\ inSelection' = <<isNodeInSelectedLineage(lineageName, referenceLineage)>>
  /\ UNCHANGED <<lineageName, referenceLineage, relationship, directChild>>
  /\ UNCHANGED componentVars
  /\ UNCHANGED parserVars
  /\ UNCHANGED panelVars

\* isDirectChild(lineageName, referenceLineage).
CheckDirectChild ==
  /\ directChild = <<>>
  /\ directChild' = <<isDirectChild(lineageName, referenceLineage)>>
  /\ UNCHANGED <<lineageName, referenceLineage, relationship, inSelection>>
  /\ UNCHANGED componentVars
  /\ UNCHANGED parserVars
  /\ UNCHANGED panelVars

NextNames == CheckRelationship \/ CheckInSelection \/ CheckDirectChild

SpecNames == InitNames /\ [][NextNames]_vars

\* ------------------------------------------------------ Number arithmetic
\* A Number of JavaScript is an IEEE 754 binary64 value.  The non-negative
\* ones the chart computes are kept as [m, e] for m * 2^e, with m a natural
\* number written as its bits, lowest first, and odd (or empty for zero).
BitAt(a, i) == IF i >= 1 /\ i <= Len(a) THEN a[i] ELSE 0

\* The number whose bits are bits[i], bits[i + 1], ... (at most 20 of them).
RECURSIVE LimbValue(_, _)
LimbValue(bits, i) ==
  IF i > Len(bits) THEN 0
  ELSE bits[i] * 2^(i - 1) + LimbValue(bits, i + 1)

\* The bits in groups of 20, each group as a number.
Limbs(bits) ==
  [k \in 1..((Len(bits) + 19) \div 20) |->
     LimbValue(SubSeq(bits, 20 * (k - 1) + 1,
                      IF 20 * k <= Len(bits) THEN 20 * k ELSE Len(bits)), 1)]

RECURSIVE AddLimbs(_, _, _, _)
AddLimbs(a, b, k, carry) ==
  IF k > Len(a) /\ k > Len(b)
  THEN IF carry = 0 THEN <<>> ELSE <<carry>>
  ELSE LET sum == (IF k <= Len(a) THEN a[k] ELSE 0)
                  + (IF k <= Len(b) THEN b[k] ELSE 0) + carry
       IN <<sum % 2^20>> \o AddLimbs(a, b, k + 1, sum \div 2^20)

LimbsToBits(limbs) ==
  [i \in 1..(20 * Len(limbs)) |->
     (limbs[((i - 1) \div 20) + 1] \div 2^((i - 1) % 20)) % 2]

MaxLen(a, b) == IF Len(a) >= Len(b) THEN Len(a) ELSE Len(b)

\* The bits without zeros at the high end.
TrimBits(a) ==
  LET ones == { i \in 1..Len(a) : a[i] = 1 }
  IN IF ones = {} THEN <<>>
     ELSE SubSeq(a, 1, CHOOSE i \in ones : \A k \in ones : k <= i)

\* a + b.
AddBits(a, b) == TrimBits(LimbsToBits(AddLimbs(Limbs(a), Limbs(b), 1, 0)))

\* a * 2^n.
ShiftBits(a, n) == [i \in 1..n |-> 0] \o a

\* a <= b for bits without high zeros.
LessEqBits(a, b) ==
  LET differ == { i \in 1..MaxLen(a, b) : BitAt(a, i) # BitAt(b, i) }
  IN IF differ = {} THEN TRUE
     ELSE BitAt(a, CHOOSE i \in differ : \A k \in differ : k <= i) = 0

\* m * 2^e with the low zeros of m moved into the exponent.
CanonicalNumber(m, e) ==
  LET ones == { i \in 1..Len(m) : m[i] = 1 }
  IN IF ones = {} THEN [m |-> <<>>, e |-> 0]
     ELSE LET low == CHOOSE i \in ones : \A k \in ones : k >= i
              high == CHOOSE i \in ones : \A k \in ones : k <= i
          IN [m |-> SubSeq(m, low, high), e |-> e + low - 1]

\* The width of the significand of a binary64 value.
SignificandBits == 53

\* Rounding of the exact value bits * 2^e to the nearest binary64 value, ties
\* to the even significand (the values here are far from the subnormal and
\* the overflow range).
RoundToNumber(bits, e) ==
  LET b == TrimBits(bits)
      d == Len(b) - SignificandBits
  IN IF d <= 0 THEN CanonicalNumber(b, e)
     ELSE LET kept == SubSeq(b, d + 1, Len(b))
              guard == b[d]
              sticky == \E i \in 1..(d - 1) : b[i] = 1
              up == guard = 1 /\ (sticky \/ kept[1] = 1)
          IN CanonicalNumber(IF up THEN AddBits(kept, <<1>>) ELSE kept, e + d)

\* The eight bits of q < 256, lowest first.
ByteBits(q) ==
  <<q % 2, (q \div 2) % 2, (q \div 4) % 2, (q \div 8) % 2,
    (q \div 16) % 2, (q \div 32) % 2, (q \div 64) % 2, (q \div 128) % 2>>

\* The first 8 * n bits of the binary expansion of r / t for r < t, lowest
\* first, below them one more bit that is 1 when the expansion goes on.
RECURSIVE FractionBits(_, _, _)
FractionBits(r, t, n) ==
  IF n = 0 THEN <<IF r # 0 THEN 1 ELSE 0>>
  ELSE FractionBits((r * 256) % t, t, n - 1) \o ByteBits((r * 256) \div t)

\* Bytes of the fraction that are computed before rounding: more than the
\* significand and the leading zeros of a quotient of two counts need.
FractionBytes == 10

\* count / totalNodes for natural numbers 0 <= count <= totalNodes,
\* totalNodes > 0: the correctly rounded quotient.
DivideNumbers(count, totalNodes) ==
  LET whole == IF count >= totalNodes THEN 1 ELSE 0
  IN IF count = 0 THEN CanonicalNumber(<<>>, 0)
     ELSE
     RoundToNumber(Append(FractionBits(count - whole * totalNodes, totalNodes,
                                       FractionBytes), whole),
                   0 - (8 * FractionBytes + 1))

\* share * 100: the exact product, correctly rounded.
TimesHundred(share) ==
  LET limbs == Limbs(share.m)
  IN RoundToNumber(
       LimbsToBits(AddLimbs([k \in 1..Len(limbs) |-> 100 * limbs[k]], <<>>, 1, 0)),
       share.e)

\* const percentage = (count / totalNodes) * 100
Percentage(count, totalNodes) == TimesHundred(DivideNumbers(count, totalNodes))

\* -------------------------------------------------------- LineageTimeChart
\* The breadth-first walk of extractLineages: queue items are [name, depth,
\* path], visited the names seen, flat the flatNodes collected so far.
RECURSIVE FlattenQueue(_, _, _, _)
FlattenQueue(f, queue, visited, flat) ==
  IF Len(queue) = 0 THEN flat
  ELSE LET item == Head(queue)
           node == f.nodes[item.name]
           children == SelectSeq(node.children, LAMBDA c : ~Falsy(c))
       IN IF Falsy(item.name) \/ item.name \in visited
          THEN FlattenQueue(f, Tail(queue), visited, flat)
          ELSE FlattenQueue(
                 f,
                 Tail(queue) \o [i \in 1..Len(children) |->
                                   [name |-> children[i],
                                    depth |-> item.depth + 1,
                                    path |-> Append(item.path, item.name)]],
                 visited \cup {item.name},
                 Append(flat, [name |-> item.name,
                               depth |-> item.depth,
                               path |-> Append(item.path, item.name)]))

extractLineages(f) ==
  FlattenQueue(f, [i \in 1..Len(f.roots) |->
                     [name |-> f.roots[i], depth |-> 0, path |-> <<>>]],
               {}, <<>>)

NodeNames(flat) == [i \in 1..Len(flat) |-> flat[i].name]

\* allLineagesByDepth[depth], empty when the key is absent.
LineagesAtDepth(flat, depth) ==
  NodeNames(SelectSeq(flat, LAMBDA n : n.depth = depth))

Distance(a, b) == IF a >= b THEN a - b ELSE b - a

\* availableDepths[0]: the depth nearest to currentDepth, the smaller one of
\* two at the same distance (the keys are in ascending order, the sort is
\* stable).
ClosestDepth(flat, depth) ==
  LET availableDepths == { flat[i].depth : i \in 1..Len(flat) }
  IN CHOOSE d \in availableDepths :
       \A o \in availableDepths :
         \/ Distance(d, depth) < Distance(o, depth)
         \/ Distance(d, depth) = Distance(o, depth) /\ d <= o

\* Mutant: the list is not cut.
LimitLineages_NoLimit(selectedLineages) == selectedLineages

\* selectedLineages.slice(0, 10) when the list is longer than 10.
LimitLineages(selectedLineages) ==
  IF Len(selectedLineages) > 10 THEN SubSeq(selectedLineages, 1, 10)
  ELSE selectedLineages

\* The lineage extraction effect: the value of lineages after it, which is
\* the one before it when the effect leaves without setLineages.
ExtractionEffect(f, depth, selectedCategory, before) ==
  IF Len(f.roots) = 0 THEN before
  ELSE LET flatNodes == extractLineages(f)
           found == { i \in 1..Len(flatNodes) : flatNodes[i].name = selectedCategory }
       IN IF ~Falsy(selectedCategory)
          THEN IF found = {} THEN <<selectedCategory>>
               ELSE LET selectedNode == flatNodes[CHOOSE i \in found :
                                                    \A k \in found : i <= k]
                        targetDepth == selectedNode.depth + depth
                        below == NodeNames(SelectSeq(flatNodes, LAMBDA n :
                                   /\ n.depth = targetDepth
                                   /\ \E k \in 1..Len(n.path) :
                                        n.path[k] = selectedCategory))
                    IN LimitLineages(IF Len(below) = 0
                                     THEN <<selectedCategory>> ELSE below)
          ELSE LET selectedLineages == LimitLineages(LineagesAtDepth(flatNodes, depth))
               IN IF Len(selectedLineages) = 0 /\ Len(flatNodes) > 0
                  THEN LimitLineages(
                         LineagesAtDepth(flatNodes, ClosestDepth(flatNodes, depth)))
                  ELSE selectedLineages

\* const numBuckets = 10
numBuckets == 10

\* The lineage of the first pattern the lineage of a node equals or extends
\* with a dot, as <<lineage>>, or <<>> when no pattern matches.
RECURSIVE FirstMatch(_, _, _)
FirstMatch(lineagePatterns, nodeLineage, j) ==
  IF j > Len(lineagePatterns) THEN <<>>
  ELSE IF \/ nodeLineage = lineagePatterns[j].exactMatch
          \/ StartsWith(nodeLineage, lineagePatterns[j].childPrefix)
  THEN <<lineagePatterns[j].lineage>>
  ELSE FirstMatch(lineagePatterns, nodeLineage, j + 1)

\* The data point of bucket i, as <<dataPoint>>, or <<>> when the bucket is
\* skipped.  The times of the nodes are whole numbers with maxTime - minTime
\* a multiple of 5, so every startTime and endTime is a multiple of 1/2 and
\* the comparisons are exact; time is midTime in twentieths.  lineages,
\* counts and totalNodes are the values the percentages are computed from.
Bucket(nodes, lineages, minTime, maxTime, i) ==
  LET nodesInBucket ==
        SelectSeq(nodes, LAMBDA node :
          /\ numBuckets * (node.time - minTime) >= i * (maxTime - minTime)
          /\ numBuckets * (node.time - minTime) < (i + 1) * (maxTime - minTime))
      withLineage == SelectSeq(nodesInBucket, LAMBDA node : ~Falsy(node.lineage))
      lineagePatterns == [j \in 1..Len(lineages) |->
                            [lineage |-> lineages[j],
                             exactMatch |-> lineages[j],
                             childPrefix |-> lineages[j] \o <<".">>]]
      totalNodes == Len(withLineage)
      counts == [l \in { lineages[j] : j \in 1..Len(lineages) } |->
                   Len(SelectSeq(withLineage, LAMBDA node :
                         FirstMatch(lineagePatterns, node.lineage, 1) = <<l>>))]
      shown == { l \in DOMAIN counts : ~Falsy(l) }
  IN IF Len(nodesInBucket) = 0 \/ totalNodes = 0 THEN <<>>
     ELSE IF \A l \in shown : counts[l] = 0 THEN <<>>
     ELSE << [time |-> 2 * numBuckets * minTime + (2 * i + 1) * (maxTime - minTime),
              lineages |-> lineages,
              totalNodes |-> totalNodes,
              counts |-> counts,
              percentage |-> [l \in shown |-> Percentage(counts[l], totalNodes)]] >>

RECURSIVE Buckets(_, _, _, _, _)
Buckets(nodes, lineages, minTime, maxTime, i) ==
  IF i >= numBuckets THEN <<>>
  ELSE Bucket(nodes, lineages, minTime, maxTime, i)
         \o Buckets(nodes, lineages, minTime, maxTime, i + 1)

\* The chart data effect: the value of chartData after it, which is the one
\* before it when the effect leaves without setChartData.
ChartDataEffect(nodes, lineages, before) ==
  IF Len(lineages) = 0 \/ Len(nodes) = 0 THEN before
  ELSE LET timePoints == { nodes[k].time : k \in 1..Len(nodes) }
           minTime == CHOOSE t \in timePoints : \A o \in timePoints : t <= o
           maxTime == CHOOSE t \in timePoints : \A o \in timePoints : t >= o
           buckets == Buckets(nodes, lineages, minTime, maxTime, 0)
       IN IF minTime = maxTime \/ Len(buckets) = 0 THEN before ELSE buckets

\* maxDepth = 3
maxDepth == 3

InitChart ==
  /\ keyStuff = ChartKeyStuff
  /\ hierarchyData = organizeLineageHierarchy(ChartKeyStuff, NoNodeTypes)
  /\ memoLength = Len(ChartKeyStuff)
  /\ listHierarchy = EmptyForest
  /\ lineageName = <<>>
  /\ referenceLineage = <<>>
  /\ relationship = "unset"
  /\ inSelection = <<>>
  /\ directChild = <<>>
  /\ NoneCalled
  /\ dataNodes \in ChartNodeArrays
  /\ builtHierarchy = <<>>
  /\ selectedLineage = Null
  /\ listSelected = Null
  /\ lastEvent = NoEvent
  /\ currentDepth = 0
  /\ chartLineages = <<>>
  /\ chartData = <<>>

\* A render of LineageTimeChart after which the dependencies of the lineage
\* extraction effect differ: the effect runs, the component renders with the
\* new lineages, and the chart data effect runs when they differ.
RenderChart(depth, selectedCategory) ==
  LET lineages == ExtractionEffect(hierarchyData, depth, selectedCategory, chartLineages)
  IN /\ currentDepth' = depth
     /\ selectedLineage' = selectedCategory
     /\ chartLineages' = lineages
     /\ chartData' = ChartDataEffect(dataNodes, lineages, chartData)
     /\ lastEvent' = [NoEvent EXCEPT !.kind = "chart"]
     /\ UNCHANGED <<dataNodes, builtHierarchy, listSelected>>
     /\ UNCHANGED componentVars
     /\ UNCHANGED nameVars
     /\ UNCHANGED parserVars

\* The component mounts: both effects run.
ChartMount ==
  /\ lastEvent.kind = "none"
  /\ RenderChart(currentDepth, selectedLineage)

\* The depth selector: setCurrentDepth(parseInt(e.target.value, 10)).
ChartSetDepth ==
  /\ lastEvent.kind = "chart"
  /\ \E depth \in (0..maxDepth) \ {currentDepth} :
       RenderChart(depth, selectedLineage)

\* The parent selects another category.
ChartSelectCategory ==
  /\ lastEvent.kind = "chart"
  /\ \E category \in ChartCategories \ {selectedLineage} :
       RenderChart(currentDepth, category)

NextChart == ChartMount \/ ChartSetDepth \/ ChartSelectCategory

SpecChart == InitChart /\ [][NextChart]_vars

\* ------------------------------------------------------- category clicks
\* Mutant: the handler never clears the selection.
handleCategoryClick_NeverClears(category, selectedCategory) == category

\* handleCategoryClick of LineageTools: the value handed to onCategorySelect.
handleCategoryClick(category, selectedCategory) ==
  IF category = selectedCategory THEN Null ELSE category

\* handleCategoryClick of CategoryList, called with a category object.
CategoryList_handleCategoryClick(category, selectedCategory) ==
  IF category.value = selectedCategory THEN Null ELSE category.value

\* handleReset of both components: the value handed to onCategorySelect.
handleReset == Null

\* handleLineageSelect of Taxonium: the new selectedLineage.
handleLineageSelect(lineage) == lineage

\* The names of the nodes a hierarchical list can show: the roots and, level
\* by level, the children of shown nodes.
RECURSIVE ShownBelow(_, _)
ShownBelow(f, names) ==
  IF Len(names) = 0 THEN {}
  ELSE {names[1]} \cup ShownBelow(f, f.nodes[names[1]].children)
                 \cup ShownBelow(f, Tail(names))

ShownNames(f) == ShownBelow(f, f.roots)

\* Entries whose count is 1: the counts play no part in a selection.
ClickEntries == { KeyStuffEntry(v, 1) : v \in LineageValues }

\* Both lists have rendered once with keyStuff, and nothing is selected.
InitClicks ==
  /\ keyStuff \in SeqsUpTo(ClickEntries, MaxObs)
  /\ hierarchyData = IF Len(keyStuff) = 0 THEN EmptyForest
                     ELSE organizeLineageHierarchy(keyStuff, NoNodeTypes)
  /\ memoLength = Len(keyStuff)
  /\ listHierarchy = IF Len(keyStuff) > 0
                     THEN organizeLineageHierarchy(keyStuff, NoNodeTypes)
                     ELSE EmptyForest
  /\ lineageName = <<>>
  /\ referenceLineage = <<>>
  /\ relationship = "unset"
  /\ inSelection = <<>>
  /\ directChild = <<>>
  /\ NoneCalled
  /\ PanelInitial

\* onCategorySelect(reported): Taxonium stores the value, both lists render
\* with the new selectedCategory, and the effect of CategoryList copies a
\* changed selectedCategory into its own state (local is the value its own
\* handler has just set).
ReportSelection(kind, category, reported, local) ==
  /\ selectedLineage' = handleLineageSelect(reported)
  /\ listSelected' = IF handleLineageSelect(reported) # selectedLineage
                     THEN handleLineageSelect(reported)
                     ELSE local
  /\ lastEvent' = [kind |-> kind, category |-> category,
                   selectedBefore |-> IF kind \in {"toolsClick", "toolsReset"}
                                      THEN selectedLineage ELSE listSelected,
                   reported |-> reported]
  /\ UNCHANGED <<dataNodes, builtHierarchy, currentDepth, chartLineages, chartData>>
  /\ UNCHANGED componentVars
  /\ UNCHANGED nameVars
  /\ UNCHANGED parserVars

\* A click on a row of the flat list of LineageTools.
ToolsClickCategory ==
  \E i \in 1..Len(keyStuff) :
    LET reported == handleCategoryClick(keyStuff[i].value, selectedLineage)
    IN ReportSelection("toolsClick", keyStuff[i].value, reported, listSelected)

\* A click on a node of the hierarchical list of LineageTools (renderNode
\* shows no node with an empty name).
ToolsClickNode ==
  \E name \in ShownNames(hierarchyData) :
    /\ ~Falsy(name)
    /\ LET reported == handleCategoryClick(name, selectedLineage)
       IN ReportSelection("toolsClick", name, reported, listSelected)

\* The Clear button of LineageTools, shown while a category is selected.
ToolsReset ==
  /\ ~Falsy(selectedLineage)
  /\ ReportSelection("toolsReset", lastEvent.category, handleReset, listSelected)

\* A click on a row of the flat list of CategoryList.
ListClickCategory ==
  \E i \in 1..Len(keyStuff) :
    LET reported == CategoryList_handleCategoryClick(keyStuff[i], listSelected)
    IN ReportSelection("listClick", keyStuff[i].value, reported, reported)

\* A click on the name of a node of the hierarchical list of CategoryList.
ListClickNode ==
  \E name \in ShownNames(listHierarchy) :
    LET reported == CategoryList_handleCategoryClick([value |-> name], listSelected)
    IN ReportSelection("listClick", name, reported, reported)

\* The Reset button of CategoryList, shown while a category is selected.
ListReset ==
  /\ ~Falsy(listSelected)
  /\ ReportSelection("listReset", lastEvent.category, handleReset, handleReset)

NextClicks ==
  \/ ToolsClickCategory
  \/ ToolsClickNode
  \/ ToolsReset
  \/ ListClickCategory
  \/ ListClickNode
  \/ ListReset

SpecClicks == InitClicks /\ [][NextClicks]_vars

\* ------------------------------------ organizeLineageHierarchy, nodeTypes
\* The nodeTypes objects for a list of observations: one that tags no name,
\* and those that tag every name, as "leaf" or as "internal".
NodeTypesFor(lineages) ==
  LET values == { lineages[i].value : i \in 1..Len(lineages) }
  IN { [given |-> TRUE, types |-> t] :
         t \in [{} -> {"leaf", "internal"}] \cup [values -> {"leaf", "internal"}] }

InitKinds ==
  /\ keyStuff \in SeqsUpTo(Entries, MaxObs)
  /\ hierarchyData = EmptyForest
  /\ memoLength = 0
  /\ listHierarchy = EmptyForest
  /\ lineageName = <<>>
  /\ referenceLineage = <<>>
  /\ relationship = "unset"
  /\ inSelection = <<>>
  /\ directChild = <<>>
  /\ NoneCalled
  /\ PanelInitial

\* organizeLineageHierarchy(lineages, nodeTypes)
OrganizeWithKinds ==
  /\ builtHierarchy = <<>>
  /\ \E nodeTypes \in NodeTypesFor(keyStuff) :
       builtHierarchy' = <<organizeLineageHierarchy(keyStuff, nodeTypes)>>
  /\ UNCHANGED <<dataNodes, selectedLineage, listSelected, lastEvent,
                 currentDepth, chartLineages, chartData>>
  /\ UNCHANGED nameVars
  /\ UNCHANGED componentVars
  /\ UNCHANGED parserVars

NextKinds == OrganizeWithKinds

SpecKinds == InitKinds /\ [][NextKinds]_vars

\* --------------------------------------------------- buildLineageHierarchy
InitBuild ==
  /\ keyStuff = <<>>
  /\ hierarchyData = EmptyForest
  /\ memoLength = 0
  /\ listHierarchy = EmptyForest
  /\ lineageName = <<>>
  /\ referenceLineage = <<>>
  /\ relationship = "unset"
  /\ inSelection = <<>>
  /\ directChild = <<>>
  /\ NoneCalled
  /\ dataNodes \in SeqsUpTo(BuildNodes, MaxNodes)
  /\ builtHierarchy = <<>>
  /\ selectedLineage = Null
  /\ listSelected = Null
  /\ lastEvent = NoEvent
  /\ currentDepth = 0
  /\ chartLineages = <<>>
  /\ chartData = <<>>

\* buildLineageHierarchy(data.nodes, lineageField).
BuildHierarchy ==
  /\ builtHierarchy = <<>>
  /\ builtHierarchy' = <<buildLineageHierarchy(dataNodes)>>
  /\ UNCHANGED <<dataNodes, selectedLineage, listSelected, lastEvent,
                 currentDepth, chartLineages, chartData>>
  /\ UNCHANGED nameVars
  /\ UNCHANGED componentVars
  /\ UNCHANGED parserVars

NextBuild == BuildHierarchy

SpecBuild == InitBuild /\ [][NextBuild]_vars

\* ----------------------------------------------------- functions on a name
InitParser ==
  /\ keyStuff = <<>>
  /\ hierarchyData = EmptyForest
  /\ memoLength = 0
  /\ listHierarchy = EmptyForest
  /\ lineageName \in Names \cup {Null}
  /\ referenceLineage = <<>>
  /\ relationship = "unset"
  /\ inSelection = <<>>
  /\ directChild = <<>>
  /\ NoneCalled
  /\ PanelInitial

ParseName ==
  /\ parseResult = <<>>
  /\ parseResult' = <<parseLineageName(lineageName)>>
  /\ UNCHANGED <<rootResult, levelResult, parentsResult, pangoResult, colorResult>>
  /\ UNCHANGED nameVars
  /\ UNCHANGED componentVars
  /\ UNCHANGED panelVars

ExtractRoot ==
  /\ rootResult = <<>>
  /\ rootResult' = <<extractLineageRoot(lineageName)>>
  /\ UNCHANGED <<parseResult, levelResult, parentsResult, pangoResult, colorResult>>
  /\ UNCHANGED nameVars
  /\ UNCHANGED componentVars
  /\ UNCHANGED panelVars

GetLevel ==
  /\ levelResult = <<>>
  /\ levelResult' = <<getLineageLevel(lineageName)>>
  /\ UNCHANGED <<parseResult, rootResult, parentsResult, pangoResult, colorResult>>
  /\ UNCHANGED nameVars
  /\ UNCHANGED componentVars
  /\ UNCHANGED panelVars

\* The first pass of organizeLineageHierarchy lists the ancestors of a name.
GetParents ==
  /\ parentsResult = <<>>
  /\ parentsResult' = <<getAllParentLineages(lineageName)>>
  /\ UNCHANGED <<parseResult, rootResult, levelResult, pangoResult, colorResult>>
  /\ UNCHANGED nameVars
  /\ UNCHANGED componentVars
  /\ UNCHANGED panelVars

CheckPango ==
  /\ pangoResult = <<>>
  /\ pangoResult' = <<isPangoLineage(lineageName)>>
  /\ UNCHANGED <<parseResult, rootResult, levelResult, parentsResult, colorResult>>
  /\ UNCHANGED nameVars
  /\ UNCHANGED componentVars
  /\ UNCHANGED panelVars

\* generatePangoLineageColor(lineageName), lineageData left at its default.
GenerateColor ==
  /\ colorResult = <<>>
  /\ colorResult' = <<generatePangoLineageColor(lineageName)>>
  /\ UNCHANGED <<parseResult, rootResult, levelResult, parentsResult, pangoResult>>
  /\ UNCHANGED nameVars
  /\ UNCHANGED componentVars
  /\ UNCHANGED panelVars

NextParser ==
  ParseName \/ ExtractRoot \/ GetLevel \/ GetParents \/ CheckPango \/ GenerateColor

SpecParser == InitParser /\ [][NextParser]_vars

\* ================================================================== claims
\* The forest a call of organizeLineageHierarchy on the current keyStuff
\* has produced (the hierarchy CategoryList holds).
ForestNames(f) == DOMAIN f.nodes

RECURSIVE SumCount(_, _)
SumCount(f, names) ==
  IF Len(names) = 0 THEN 0
  ELSE f.nodes[names[1]].count + SumCount(f, Tail(names))

Range(seq) == { seq[i] : i \in 1..Len(seq) }

\* The names reachable from the root list through children, in at most n steps.
RECURSIVE ReachableWithin(_, _)
ReachableWithin(f, n) ==
  IF n = 0 THEN Range(f.roots)
  ELSE LET r == ReachableWithin(f, n - 1)
       IN r \cup UNION { Range(f.nodes[k].children) : k \in r }

Reachable(f) == ReachableWithin(f, Cardinality(ForestNames(f)))

\* C1: after organizeLineageHierarchy returns, every node reachable in the
\* forest, real or synthesized, at any depth, has
\* count = originalCount + the sum of count over its children.
C1_AggregationInvariant ==
  \A n \in Reachable(listHierarchy) :
    LET node == listHierarchy.nodes[n]
    IN node.count = node.originalCount + SumCount(listHierarchy, node.children)

\* A built forest where a synthesized node and a node with a count of its own
\* both have children.
C1_Witness ==
  /\ \E n \in Reachable(listHierarchy) :
       /\ listHierarchy.nodes[n].originalCount = 0
       /\ Len(listHierarchy.nodes[n].children) > 0
  /\ \E n \in Reachable(listHierarchy) :
       /\ listHierarchy.nodes[n].originalCount > 0
       /\ Len(listHierarchy.nodes[n].children) > 0

\* The permutations of 1..n.
IndexPermutations(n) ==
  { p \in [1..n -> 1..n] : \A i, j \in 1..n : p[i] = p[j] => i = j }

Permuted(seq, p) == [i \in 1..Len(seq) |-> seq[p[i]]]

SameNodeData(f, g) ==
  /\ ForestNames(f) = ForestNames(g)
  /\ \A n \in ForestNames(f) :
       /\ f.nodes[n].originalCount = g.nodes[n].originalCount
       /\ f.nodes[n].count = g.nodes[n].count
       /\ f.nodes[n].color = g.nodes[n].color

DistinctValues(lineages) ==
  \A i, j \in 1..Len(lineages) : lineages[i].value = lineages[j].value => i = j

\* C2: organizeLineageHierarchy on any two orderings of the same observations
\* yields forests with the same node names and, per node, the same
\* originalCount, count and color.  Stated for the arrays getKeyStuff can
\* produce, whose values are pairwise distinct.
C2_OrderIndependent ==
  DistinctValues(keyStuff) =>
    \A p \in IndexPermutations(Len(keyStuff)) :
      SameNodeData(listHierarchy,
                   organizeLineageHierarchy(Permuted(keyStuff, p), NoNodeTypes))

DistinctNonEmptyValues(lineages) ==
  /\ \A i \in 1..Len(lineages) : lineages[i].value # <<>>
  /\ DistinctValues(lineages)

\* C3: for an input with pairwise distinct non-empty names, every node of the
\* forest has originalCount equal to the count of the observation with that
\* name, and 0 exactly when no observation has that name.
C3_OwnCountIsInputCount ==
  DistinctNonEmptyValues(keyStuff) =>
    \A n \in ForestNames(listHierarchy) :
      /\ \A i \in 1..Len(keyStuff) :
           keyStuff[i].value = n =>
             listHierarchy.nodes[n].originalCount = keyStuff[i].count
      /\ (listHierarchy.nodes[n].originalCount = 0
            <=> ~ \E i \in 1..Len(keyStuff) : keyStuff[i].value = n)

RECURSIVE SumOfCountsNamed(_, _)
SumOfCountsNamed(lineages, n) ==
  IF Len(lineages) = 0 THEN 0
  ELSE (IF lineages[1].value = n THEN lineages[1].count ELSE 0)
       + SumOfCountsNamed(Tail(lineages), n)

\* C4: when a name occurs in several observations, the node of that name has
\* originalCount equal to the sum of the counts of those observations.
C4_DuplicateCountsSummed ==
  \A i, j \in 1..Len(keyStuff) :
    (i # j /\ keyStuff[i].value = keyStuff[j].value /\ keyStuff[i].value # <<>>) =>
      listHierarchy.nodes[keyStuff[i].value].originalCount
        = SumOfCountsNamed(keyStuff, keyStuff[i].value)

\* C5: every node whose parseLineageName parent is not none has that parent
\* in the forest, listed with the node among its children; the root list
\* holds exactly the nodes whose parent is none or not in the map.
C5_ParentLinked ==
  /\ \A n \in ForestNames(listHierarchy) :
       LET parent == parseLineageName(n).parent
       IN parent # Null =>
            /\ parent \in ForestNames(listHierarchy)
            /\ n \in Range(listHierarchy.nodes[parent].children)
  /\ Range(listHierarchy.roots) =
       { n \in ForestNames(listHierarchy) :
           \/ parseLineageName(n).parent = Null
           \/ parseLineageName(n).parent \notin ForestNames(listHierarchy) }

\* The chain of nodes below name: name, its only child, that one's only child...
RECURSIVE IsChainFrom(_, _, _, _)
IsChainFrom(f, name, parts, k) ==
  /\ name = Join(SubSeq(parts, 1, k))
  /\ IF k = Len(parts)
     THEN Len(f.nodes[name].children) = 0
     ELSE /\ Len(f.nodes[name].children) = 1
          /\ IsChainFrom(f, f.nodes[name].children[1], parts, k + 1)

\* C6: a single observation (n, c) whose name has k >= 1 path segments after
\* the root gives one chain of k+1 nodes from the root name down to n, each
\* synthesized ancestor with originalCount 0 and count c, and n with
\* originalCount c and count c.
C6_SingleObservationChain ==
  (Len(keyStuff) = 1 /\ Len(parseLineageName(keyStuff[1].value).parts) >= 2) =>
    LET n == keyStuff[1].value
        c == keyStuff[1].count
        parts == parseLineageName(n).parts
    IN /\ Len(listHierarchy.roots) = 1
       /\ Cardinality(ForestNames(listHierarchy)) = Len(parts)
       /\ IsChainFrom(listHierarchy, listHierarchy.roots[1], parts, 1)
       /\ \A a \in ForestNames(listHierarchy) :
            /\ listHierarchy.nodes[a].count = c
            /\ listHierarchy.nodes[a].originalCount = IF a = n THEN c ELSE 0

\* How often name occurs in the root list and in all children lists together.
Occurrences(f, name) ==
  Cardinality({ i \in 1..Len(f.roots) : f.roots[i] = name })
  + Cardinality({ <<k, i>> \in ForestNames(f) \X (1..Cardinality(ForestNames(f))) :
                    i <= Len(f.nodes[k].children) /\ f.nodes[k].children[i] = name })

\* The names below name, through children, in at most n steps.
RECURSIVE DescendantsWithin(_, _, _)
DescendantsWithin(f, name, n) ==
  IF n = 0 THEN {}
  ELSE LET d == DescendantsWithin(f, name, n - 1)
       IN Range(f.nodes[name].children)
          \cup UNION { Range(f.nodes[k].children) : k \in d }

\* C7: no two nodes of the forest have the same name, every node appears
\* exactly once (in the root list or in the children of exactly one node),
\* and no node is its own ancestor.
C7_ForestOfTrees ==
  /\ \A k \in ForestNames(listHierarchy) : listHierarchy.nodes[k].name = k
  /\ \A i, j \in 1..Len(listHierarchy.keys) :
       listHierarchy.keys[i] = listHierarchy.keys[j] => i = j
  /\ Range(listHierarchy.keys) = ForestNames(listHierarchy)
  /\ \A k \in ForestNames(listHierarchy) : Occurrences(listHierarchy, k) = 1
  /\ \A k \in ForestNames(listHierarchy) :
       k \notin DescendantsWithin(listHierarchy, k, Cardinality(ForestNames(listHierarchy)))

\* A built forest with several roots, one of them with a child and a grandchild.
C7_Witness ==
  /\ Len(listHierarchy.roots) >= 2
  /\ \E k \in ForestNames(listHierarchy) :
       \E c \in Range(listHierarchy.nodes[k].children) :
         Len(listHierarchy.nodes[c].children) > 0

KeyIndex(f, name) == CHOOSE i \in 1..Len(f.keys) : f.keys[i] = name

\* names is ordered by non-increasing count, equal counts in the order in
\* which the second pass met them (the order of the keys of the map).
SortedStable(f, names) ==
  \A i, j \in 1..Len(names) :
    i < j =>
      /\ f.nodes[names[i]].count >= f.nodes[names[j]].count
      /\ f.nodes[names[i]].count = f.nodes[names[j]].count
           => KeyIndex(f, names[i]) < KeyIndex(f, names[j])

\* C8: the root list and the children of every node are ordered by
\* non-increasing count, and nodes with equal count keep insertion order.
C8_SortedByCount ==
  /\ SortedStable(listHierarchy, listHierarchy.roots)
  /\ \A k \in ForestNames(listHierarchy) :
       SortedStable(listHierarchy, listHierarchy.nodes[k].children)

\* A list of the forest where the sort moved a node ahead of one inserted
\* before it, and left two nodes of equal count in insertion order.
ListMovedAndTied(f, names) ==
  /\ \E i, j \in 1..Len(names) :
       i < j /\ KeyIndex(f, names[i]) > KeyIndex(f, names[j])
  /\ \E i, j \in 1..Len(names) :
       i < j /\ f.nodes[names[i]].count = f.nodes[names[j]].count

C8_Witness ==
  ListMovedAndTied(listHierarchy, listHierarchy.roots)

\* C9: after any sequence of changes to keyStuff, the hierarchy LineageTools
\* displays is organizeLineageHierarchy of the current keyStuff, also after
\* a change that alters counts without altering the number of entries.
C9_HierarchyFollowsKeyStuff ==
  hierarchyData = IF Len(keyStuff) = 0 THEN EmptyForest
                  ELSE organizeLineageHierarchy(keyStuff, NoNodeTypes)

\* b begins with a followed by a dot.
ExtendsWithDot(a, b) ==
  /\ Len(b) > Len(a)
  /\ \A i \in 1..Len(a) : b[i] = a[i]
  /\ b[Len(a) + 1] = "."

\* The names obtained by repeatedly taking parseLineageName(...).parent.
RECURSIVE AncestorNames(_)
AncestorNames(name) ==
  LET parent == parseLineageName(name).parent
  IN IF parent = Null THEN {} ELSE {parent} \cup AncestorNames(parent)

\* C10: for non-empty names a and b, checkLineageRelationship(a, b) is
\* "self" iff a = b, "parent" iff b starts with a + ".", "child" iff a starts
\* with b + ".", null otherwise; and it is "parent" exactly when a is one of
\* the ancestor names of b by parseLineageName.
C10_RelationshipByPrefix ==
  (relationship # "unset" /\ lineageName # <<>> /\ ~Falsy(referenceLineage)) =>
    /\ relationship \in {"self", "parent", "child", "null"}
    /\ relationship = "self" <=> lineageName = referenceLineage
    /\ relationship = "parent" <=> ExtendsWithDot(lineageName, referenceLineage)
    /\ relationship = "child" <=> ExtendsWithDot(referenceLineage, lineageName)
    /\ relationship = "parent" <=> lineageName \in AncestorNames(referenceLineage)

\* AY against AY.4.2: AY is a strict ancestor.
C10_Witness ==
  /\ lineageName = <<"A", "Y">>
  /\ referenceLineage = <<"A", "Y", ".", "4", ".", "2">>
  /\ relationship = "parent"

\* C11: for non-empty names a and b, checkLineageRelationship(a, b) is
\* "parent" iff checkLineageRelationship(b, a) is "child", "self" iff the
\* swapped call is "self", and null iff the swapped call is null.
C11_RelationshipSymmetric ==
  (relationship # "unset" /\ lineageName # <<>> /\ ~Falsy(referenceLineage)) =>
    LET swapped == checkLineageRelationship(referenceLineage, lineageName)
    IN /\ relationship = "parent" <=> swapped = "child"
       /\ relationship = "self" <=> swapped = "self"
       /\ relationship = "null" <=> swapped = "null"

\* B.1.1 against B: a sub-lineage, whose swapped call answers "parent".
C11_Witness ==
  /\ lineageName = <<"B", ".", "1", ".", "1">>
  /\ referenceLineage = <<"B">>
  /\ relationship = "child"
  /\ checkLineageRelationship(referenceLineage, lineageName) = "parent"

\* The parent of the parsed name followed by "." and the last segment.
ParentDotLast(parsed) ==
  parsed.parent \o <<".">> \o parsed.parts[Len(parsed.parts)]

\* C12 as stated: for every name whose parse has at least two segments,
\* parent + "." + last segment is the name, and the parent has exactly one
\* segment fewer than the name.
C12_ParentOneSegmentFewer ==
  (parseResult # <<>> /\ Len(parseResult[1].parts) >= 2) =>
    /\ ParentDotLast(parseResult[1]) = lineageName
    /\ Len(parseLineageName(parseResult[1].parent).parts)
         = Len(parseResult[1].parts) - 1

\* C12, amended: for every name whose parse has at least two segments,
\* parent + "." + last segment is the name; a non-empty parent has exactly
\* one segment fewer than the name, and an empty parent (the name is a dot
\* and one dot-free segment) parses to no segment, two fewer than the name.
C12_RoundTrip ==
  (parseResult # <<>> /\ Len(parseResult[1].parts) >= 2) =>
    /\ ParentDotLast(parseResult[1]) = lineageName
    /\ IF parseResult[1].parent = <<>>
       THEN /\ Len(parseResult[1].parts) = 2
            /\ Len(parseLineageName(parseResult[1].parent).parts) = 0
       ELSE Len(parseLineageName(parseResult[1].parent).parts)
              = Len(parseResult[1].parts) - 1

\* AY.4.2 parsed: three segments, parent AY.4.
C12_Witness ==
  /\ lineageName = <<"A", "Y", ".", "4", ".", "2">>
  /\ parseResult # <<>>
  /\ Len(parseResult[1].parts) = 3
  /\ parseResult[1].parent = <<"A", "Y", ".", "4">>

\* C13: for every non-empty name, parseLineageName and extractLineageRoot
\* decompose it alike: parts = nameParts and parts[0] = rootLineage; a
\* multi-letter or X-prefixed root is one first segment, followed by the
\* dot-separated path; XBB.1.5 has segments [XBB, 1, 5], parent XBB.1 and
\* root XBB.
C13_SameDecomposition ==
  (parseResult # <<>> /\ rootResult # <<>> /\ ~Falsy(lineageName)) =>
    /\ parseResult[1].parts = rootResult[1].nameParts
    /\ parseResult[1].parts[1] = rootResult[1].rootLineage
    /\ (MultiLetterRootTest(lineageName) \/ StartsWith(lineageName, <<"X">>)) =>
         /\ rootResult[1].rootLineage
              = (IF IndexOf(lineageName, ".") = 0 - 1 THEN lineageName
                 ELSE SubSeq(lineageName, 1, IndexOf(lineageName, ".")))
         /\ Join(rootResult[1].nameParts) = lineageName
    /\ lineageName = <<"X", "B", "B", ".", "1", ".", "5">> =>
         /\ parseResult[1].parts = << <<"X", "B", "B">>, <<"1">>, <<"5">> >>
         /\ parseResult[1].parent = <<"X", "B", "B", ".", "1">>
         /\ rootResult[1].rootLineage = <<"X", "B", "B">>

\* XBB.1.5 decomposed by both functions.
C13_Witness ==
  /\ lineageName = <<"X", "B", "B", ".", "1", ".", "5">>
  /\ parseResult # <<>>
  /\ rootResult # <<>>
  /\ rootResult[1].nameParts = << <<"X", "B", "B">>, <<"1">>, <<"5">> >>

\* C14: for every non-empty name, getLineageLevel is the number of segments
\* of parseLineageName minus one, and the number of ancestor names the first
\* pass of organizeLineageHierarchy lists for the name.
C14_LevelIsSegmentsMinusOne ==
  (levelResult # <<>> /\ ~Falsy(lineageName)) =>
    /\ parseResult # <<>> => levelResult[1] = Len(parseResult[1].parts) - 1
    /\ parentsResult # <<>> => levelResult[1] = Len(parentsResult[1])

\* XBB.1.5 at level 2, with three segments and two ancestor names.
C14_Witness ==
  /\ lineageName = <<"X", "B", "B", ".", "1", ".", "5">>
  /\ levelResult = <<2>>
  /\ parseResult # <<>>
  /\ Len(parseResult[1].parts) = 3
  /\ parentsResult = << << <<"X", "B", "B">>, <<"X", "B", "B", ".", "1">> >> >>

\* The observations that have a name.
NamedEntries(lineages) == SelectSeq(lineages, LAMBDA e : ~Falsy(e.value))

\* C15: observations with an empty name contribute no node and no count:
\* the forest is the one built from the other observations alone; a list
\* that is empty, or holds no named observation, yields the empty forest.
C15_EmptyNamesSkipped ==
  /\ listHierarchy = organizeLineageHierarchy(NamedEntries(keyStuff), NoNodeTypes)
  /\ Len(NamedEntries(keyStuff)) = 0 => listHierarchy = EmptyForest
  /\ \A name \in ForestNames(listHierarchy) :
       listHierarchy.nodes[name].originalCount > 0 =>
         \E i \in 1..Len(keyStuff) :
           keyStuff[i].value = name /\ ~Falsy(keyStuff[i].value)

\* An observation without a name beside B.1: the forest is B over B.1 with
\* the count of B.1.
C15_Witness ==
  /\ \E i, j \in 1..Len(keyStuff) :
       /\ keyStuff[i].value = <<>>
       /\ keyStuff[j].value = <<"B", ".", "1">>
       /\ listHierarchy.nodes[<<"B">>].count = keyStuff[j].count
  /\ ForestNames(listHierarchy) = { <<"B">>, <<"B", ".", "1">> }

\* C16: every node of the forest, the nodes without children included, has
\* totalTaxa defined and equal to its aggregated sampleCount plus its
\* aggregated internalCount.
C16_TotalTaxaDefined ==
  \A name \in ForestNames(listHierarchy) :
    listHierarchy.nodes[name].totalTaxa
      = << listHierarchy.nodes[name].sampleCount
           + listHierarchy.nodes[name].internalCount >>

\* A nodeTypes object that tags no name of keyStuff.
OtherNameTagged ==
  [given |-> TRUE, types |-> (<<"Z", ".", "9">> :> "internal")]

\* C17: called without nodeTypes, organizeLineageHierarchy leaves every node
\* with internalCount 0 and sampleCount equal to its total count; a
\* nodeTypes that tags none of the names gives the same forest.
C17_UntaggedCountsAreSamples ==
  /\ \A name \in ForestNames(listHierarchy) :
       /\ listHierarchy.nodes[name].internalCount = 0
       /\ listHierarchy.nodes[name].sampleCount = listHierarchy.nodes[name].count
  /\ Len(keyStuff) > 0 =>
       organizeLineageHierarchy(keyStuff, OtherNameTagged) = listHierarchy

\* A node with a count of its own and a child: its sample count is its own
\* count plus the child's.
C17_Witness ==
  \E name \in ForestNames(listHierarchy) :
    /\ Len(listHierarchy.nodes[name].children) > 0
    /\ listHierarchy.nodes[name].originalCount > 0
    /\ listHierarchy.nodes[name].sampleCount > listHierarchy.nodes[name].originalCount
    /\ listHierarchy.nodes[name].sampleCount = listHierarchy.nodes[name].count

\* The name is one ASCII letter, and each dot after it is followed by a
\* segment of one or more digits.
SingleLetterNumericPath(name) ==
  LET parts == Split(name)
  IN /\ Len(parts[1]) = 1
     /\ parts[1][1] \in UpperLetters \cup LowerLetters
     /\ \A i \in 2..Len(parts) :
          /\ Len(parts[i]) >= 1
          /\ \A k \in 1..Len(parts[i]) : parts[i][k] \in Digits

C20_ReturnsLegibleColor ==
  (colorResult # <<>> /\ ~Falsy(lineageName)) =>
    colorResult[1].by \notin {"TypeError", "gray180"}

C22_SelectionIsSelfOrChild ==
  inSelection # <<>> =>
    /\ ~Falsy(referenceLineage) =>
         /\ inSelection[1] <=> (\/ lineageName = referenceLineage
                                \/ ExtendsWithDot(referenceLineage, lineageName))
         /\ inSelection[1] <=> checkLineageRelationship(lineageName, referenceLineage)
                                 \in {"self", "child"}
         /\ relationship # "unset" =>
              (inSelection[1] <=> relationship \in {"self", "child"})
    /\ (lineageName = <<"B", "A">> /\ referenceLineage = <<"B">>) => ~inSelection[1]
    /\ Falsy(referenceLineage) => inSelection[1]

\* B.1.1 with B selected: in the selection, and a "child" of B.
C22_Witness ==
  /\ lineageName = <<"B", ".", "1", ".", "1">>
  /\ referenceLineage = <<"B">>
  /\ inSelection = <<TRUE>>
  /\ relationship = "child"

\* C23: for non-empty names c and p, isDirectChild(c, p) is true exactly
\* when parseLineageName(c).parent is p, whatever the kind of root.
C23_DirectChildIsParsedParent ==
  (directChild # <<>> /\ ~Falsy(lineageName) /\ ~Falsy(referenceLineage)) =>
    (directChild[1] <=> parseLineageName(lineageName).parent = referenceLineage)

\* AY.4.2 is a direct child of AY.4.
C23_Witness ==
  /\ lineageName = <<"A", "Y", ".", "4", ".", "2">>
  /\ referenceLineage = <<"A", "Y", ".", "4">>
  /\ directChild = <<TRUE>>

\* C24: in the forest buildLineageHierarchy returns, the count of every
\* node is its originalCount plus the sum of the counts of its children,
\* also when an intermediate ancestor is missing from the lineages.
C24_CountIsOwnPlusChildren ==
  builtHierarchy # <<>> =>
    \A name \in ForestNames(builtHierarchy[1]) :
      builtHierarchy[1].nodes[name].count
        = builtHierarchy[1].nodes[name].originalCount
          + SumCount(builtHierarchy[1], builtHierarchy[1].nodes[name].children)

\* C25: a click on the selected category reports null, a click on another
\* category reports that category, Reset/Clear reports null; after any
\* sequence of clicks and resets the selection is the value last reported,
\* which is null or the most recently clicked category.
C25_SelectionIsNullOrLastClicked ==
  /\ lastEvent.kind \in {"toolsClick", "listClick"} =>
       lastEvent.reported = IF lastEvent.category = lastEvent.selectedBefore
                            THEN Null ELSE lastEvent.category
  /\ lastEvent.kind \in {"toolsReset", "listReset"} => lastEvent.reported = Null
  /\ lastEvent.kind # "none" =>
       /\ selectedLineage = lastEvent.reported
       /\ listSelected = lastEvent.reported
  /\ selectedLineage \in {Null, lastEvent.category}
  /\ listSelected \in {Null, lastEvent.category}

\* A click on the selected category of LineageTools has cleared the selection.
C25_Witness ==
  /\ lastEvent.kind = "toolsClick"
  /\ lastEvent.category = lastEvent.selectedBefore
  /\ lastEvent.category # Null
  /\ selectedLineage = Null

\* The sum of the k-th limbs of terms[i], terms[i + 1], ...
RECURSIVE LimbSum(_, _, _)
LimbSum(terms, k, i) ==
  IF i > Len(terms) THEN 0
  ELSE (IF k <= Len(terms[i]) THEN terms[i][k] ELSE 0) + LimbSum(terms, k, i + 1)

\* The exact sum of Numbers, as bits * 2^exponent for an exponent that is at
\* most the exponent of every term.
SumAt(numbers, exponent) ==
  LET terms == [i \in 1..Len(numbers) |->
                  Limbs(ShiftBits(numbers[i].m, numbers[i].e - exponent))]
      width == IF Len(terms) = 0 THEN 0
               ELSE CHOOSE w \in { Len(terms[i]) : i \in 1..Len(terms) } :
                      \A i \in 1..Len(terms) : Len(terms[i]) <= w
  IN TrimBits(LimbsToBits(
       AddLimbs([k \in 1..width |-> LimbSum(terms, k, 1)], <<>>, 1, 0)))

\* An exponent that is at most 2^-40 and the exponent of every Number.
LowExponent(numbers) ==
  LET exponents == { numbers[i].e : i \in 1..Len(numbers) } \cup { 0 - 40 }
  IN CHOOSE e \in exponents : \A o \in exponents : e <= o

\* 100 is 2^2 + 2^5 + 2^6.
HundredBits == <<0, 0, 1, 0, 0, 1, 1>>

PercentagesOf(dataPoint) ==
  LET shown == SelectSeq(dataPoint.lineages, LAMBDA name : ~Falsy(name))
  IN [i \in 1..Len(shown) |-> dataPoint.percentage[shown[i]]]

\* The percentages of the data point sum to at most 100 + 2^slack.
SumWithin(dataPoint, slack) ==
  LET low == LowExponent(PercentagesOf(dataPoint))
  IN LessEqBits(SumAt(PercentagesOf(dataPoint), low),
                AddBits(ShiftBits(HundredBits, 0 - low),
                        ShiftBits(slack, 0 - low - 40)))

RECURSIVE SumCounts(_, _)
SumCounts(counts, names) ==
  IF Len(names) = 0 THEN 0
  ELSE counts[names[1]] + SumCounts(counts, Tail(names))

\* C26 as stated: in every bucket the counts sum to at most totalNodes, the
\* percentages of the data point sum to at most 100, and at most 10 lineages
\* are displayed.
C26_PercentagesSumToAtMost100 ==
  /\ Len(chartLineages) <= 10
  /\ \A i \in 1..Len(chartData) :
       /\ SumCounts(chartData[i].counts, chartData[i].lineages)
            <= chartData[i].totalNodes
       /\ SumWithin(chartData[i], <<>>)

\* C26, amended: in every bucket the counts of the displayed lineages sum to
\* at most totalNodes (a node is counted for at most one of them), every
\* percentage is at most 100, is 0 exactly for a lineage without a node and
\* 100 exactly for a lineage that has all the nodes, and the percentages,
\* which are rounded, sum to at most 100 + 2^-40; at most 10 lineages are
\* displayed.
C26_CountsSumToAtMostTotal ==
  /\ Len(chartLineages) <= 10
  /\ \A i \in 1..Len(chartData) :
       /\ SumCounts(chartData[i].counts, chartData[i].lineages)
            <= chartData[i].totalNodes
       /\ \A l \in DOMAIN chartData[i].percentage :
            /\ \/ chartData[i].counts[l] = 0
               \/ SumWithin([lineages |-> <<l>>,
                             percentage |-> chartData[i].percentage], <<>>)
            /\ chartData[i].counts[l] = 0 <=>
                 chartData[i].percentage[l] = CanonicalNumber(<<>>, 0)
            /\ chartData[i].counts[l] = chartData[i].totalNodes =>
                 chartData[i].percentage[l] = CanonicalNumber(HundredBits, 0)
       /\ SumWithin(chartData[i], <<1>>)

\* Ten lineages are displayed and a bucket has nodes of two of them and a
\* node of neither.
C26_Witness ==
  /\ Len(chartLineages) = 10
  /\ \E i \in 1..Len(chartData) :
       /\ chartData[i].counts[<<"B">>] > 0
       /\ chartData[i].counts[<<"B", "A">>] > 0
       /\ chartData[i].counts[<<"B">>] + chartData[i].counts[<<"B", "A">>]
            < chartData[i].totalNodes

RECURSIVE SumEntryCounts(_)
SumEntryCounts(lineages) ==
  IF Len(lineages) = 0 THEN 0
  ELSE lineages[1].count + SumEntryCounts(Tail(lineages))

\* C27: the counts of the root nodes of the forest sum to the sum of the
\* counts of all observations that have a name: no count is lost or counted
\* twice by the build.
C27_RootTotalIsInputTotal ==
  SumCount(listHierarchy, listHierarchy.roots) = SumEntryCounts(NamedEntries(keyStuff))

\* C29: every node that is not the name of an observation has at least one
\* child, and no node of a forest built from positive counts has count 0.
C29_SynthesizedNodesHaveChildren ==
  \A name \in ForestNames(listHierarchy) :
    /\ (\A i \in 1..Len(keyStuff) : keyStuff[i].value # name) =>
         Len(listHierarchy.nodes[name].children) > 0
    /\ listHierarchy.nodes[name].count > 0

\* C30: every node of the root list has level 0, and the level of every
\* child is the level of its parent plus one.
C30_LevelIsDepth ==
  /\ \A i \in 1..Len(listHierarchy.roots) :
       listHierarchy.nodes[listHierarchy.roots[i]].level = 0
  /\ \A name \in ForestNames(listHierarchy) :
       \A i \in 1..Len(listHierarchy.nodes[name].children) :
         listHierarchy.nodes[listHierarchy.nodes[name].children[i]].level
           = listHierarchy.nodes[name].level + 1

\* C28: for every node of the forest, whatever kinds nodeTypes gives to the
\* names, the aggregated sampleCount plus the aggregated internalCount is the
\* total count of the node.
C28_SamplePlusInternalIsCount ==
  builtHierarchy # <<>> =>
    \A name \in ForestNames(builtHierarchy[1]) :
      builtHierarchy[1].nodes[name].sampleCount
        + builtHierarchy[1].nodes[name].internalCount
        = builtHierarchy[1].nodes[name].count

\* A node with children that aggregates sample counts and internal counts.
C28_Witness ==
  /\ builtHierarchy # <<>>
  /\ \E name \in ForestNames(builtHierarchy[1]) :
       /\ Len(builtHierarchy[1].nodes[name].children) > 0
       /\ builtHierarchy[1].nodes[name].sampleCount > 0
       /\ builtHierarchy[1].nodes[name].internalCount > 0

====
